---- MODULE Spec2Model ----
(***************************************************************************)
(* Model of the bitmap crate (src/src/lib.rs): the Bitmap structure, its   *)
(* constructor, set_pixel and write_to_file.  The file written to is the   *)
(* only external collaborator; each of its write calls either accepts the  *)
(* whole chunk or fails with an error after accepting a proper prefix.     *)
(***************************************************************************)
EXTENDS Integers, Sequences, FiniteSets, TLC

(* ------------------------------ bounds -------------------------------- *)
MaxDim == 3          \* width and height explored by Spec: 1..MaxDim
MaxSets == 3         \* set_pixel calls explored by Spec
MaxWide == 10        \* widths explored by SpecWide: 1..MaxWide
MaxTall == 8         \* heights explored by SpecWide: 1 and MaxTall
MaxWideSets == 1     \* set_pixel calls explored by SpecWide
MaxFill == 4         \* set_pixel calls explored by Spec2x2
MaxPartial == 1      \* bytes a failing write may still have accepted

Colors == { <<10, 20, 30>>, <<0, 128, 255>> }   \* (r, g, b) arguments
Errors == { "EIO", "ENOSPC" }                   \* io errors of the file

VARIABLES
    width,      \* Bitmap.width
    height,     \* Bitmap.height
    pixels,     \* Bitmap.pixels, a sequence of bytes (index k+1 holds byte k)
    panicked,   \* TRUE once an index into pixels was out of bounds
    pc,         \* position inside write_to_file, "idle" outside of it
    file,       \* the local `file`: "none", "open" or the error of create
    sink,       \* the bytes the file has accepted during this call
    attempts,   \* the write calls issued by this call and their outcomes
    result,     \* value returned by write_to_file: "none", "ok" or an error
    nsets,      \* number of set_pixel calls made so far
    last,       \* arguments and byte offset of the latest set_pixel call
    budget      \* number of set_pixel calls the behaviour may make

vars == <<width, height, pixels, panicked, pc, file, sink, attempts, result,
          nsets, last, budget>>

(* --------------------------- pure helpers ----------------------------- *)
Min(a, b) == IF a < b THEN a ELSE b

\* `n as u8`
U8(n) == n % 256

\* `n >> k` on a non-negative value
Shr(n, k) == n \div (2 ^ k)

\* variant: the four bytes most significant first
Bytes4BE(n) == << U8(Shr(n, 24)), U8(Shr(n, 16)), U8(Shr(n, 8)), U8(n) >>

\* n as u8, (n>>8) as u8, (n>>16) as u8, (n>>24) as u8
Bytes4(n) == << U8(n), U8(Shr(n, 8)), U8(Shr(n, 16)), U8(Shr(n, 24)) >>

FILE_HEADER_SIZE == 14
BMP_INFO_SIZE == 40
TOTAL_HEADER_SIZE == FILE_HEADER_SIZE + BMP_INFO_SIZE

(* ------------------------------ Bitmap::new --------------------------- *)
\* variant: rows allocated without their padding
NewLenNoPad(w, h) == h * (w * 3)

\* length of the vector allocated by new
NewLen(w, h) == h * (w * 3 + (w % 4))

\* variant: the vector filled with 0x00
NewPixelsZero(w, h) == [k \in 1..NewLen(w, h) |-> 0]

\* Vec::from_elem(len, 0xFF)
NewPixels(w, h) == [k \in 1..NewLen(w, h) |-> 255]

(* --------------------------- Bitmap::set_pixel ------------------------ *)
\* variant: the flip computed as height - y
OffsetNoMinusOne(w, h, x, y) == (h - y) * (w * 3) + x * 3

\* byte offset computed by set_pixel
Offset(w, h, x, y) == (h - y - 1) * (w * 3) + x * 3

\* variant: the channels stored in the caller's (r, g, b) order
StoreAllRGB(p, i, color) ==
    IF i < 0 \/ i + 2 >= Len(p) THEN p
    ELSE [p EXCEPT ![i + 1] = color[1], ![i + 2] = color[2], ![i + 3] = color[3]]

\* the three indexed stores, in order; a store out of bounds stops the call
StoreAll(p, i, color) ==
    LET r == color[1]
        g == color[2]
        b == color[3]
        s0 == IF i + 0 < Len(p) THEN [p EXCEPT ![i + 1] = b] ELSE p
        s1 == IF i + 1 < Len(p) THEN [s0 EXCEPT ![i + 2] = g] ELSE s0
        s2 == IF i + 2 < Len(p) THEN [s1 EXCEPT ![i + 3] = r] ELSE s1
    IN  IF i + 0 >= Len(p) THEN p
        ELSE IF i + 1 >= Len(p) THEN s0
        ELSE IF i + 2 >= Len(p) THEN s1
        ELSE s2

(* ------------------------ Bitmap::write_to_file ----------------------- *)
\* variant: the padding term left out
image_size_nopad(w, h) == h * w * 3

image_size(w, h) == h * w * 3 + h * (w % 4)

file_size(w, h) == image_size(w, h) + TOTAL_HEADER_SIZE

file_header(w, h) ==
    << 66, 77 >> \o Bytes4(file_size(w, h)) \o
    << 0, 0 >> \o
    << 0, 0 >> \o
    << U8(TOTAL_HEADER_SIZE), 0, 0, 0 >>

info_header(w, h) ==
    << U8(BMP_INFO_SIZE), 0, 0, 0 >> \o
    Bytes4(w) \o
    Bytes4(h) \o
    << 1, 0 >> \o
    << 24, 0 >> \o
    << 0, 0, 0, 0 >> \o
    Bytes4(image_size(w, h)) \o
    << 72, 0, 0, 0 >> \o
    << 72, 0, 0, 0 >> \o
    << 0, 0, 0, 0 >> \o
    << 0, 0, 0, 0 >>

NoCall == [x |-> -1, y |-> -1, color |-> <<0, 0, 0>>, i |-> -1]

(* ------------------------------- Init --------------------------------- *)
InitWith(ws, hs, n) ==
    /\ width \in ws
    /\ height \in hs
    /\ pixels = NewPixels(width, height)
    /\ panicked = FALSE
    /\ pc = "idle"
    /\ file = "none"
    /\ sink = << >>
    /\ attempts = << >>
    /\ result = "none"
    /\ nsets = 0
    /\ last = NoCall
    /\ budget = n

Init == InitWith(1..MaxDim, 1..MaxDim, MaxSets)

InitWide == InitWith(1..MaxWide, {1, MaxTall}, MaxWideSets)

Init2x2 == InitWith({2}, {2}, MaxFill)

(* ------------------------------ actions ------------------------------- *)
\* set_pixel(x, y, color) with in-range coordinates
SetPixel ==
    /\ pc = "idle"
    /\ ~panicked
    /\ nsets < budget
    /\ \E x \in 0..(width - 1), y \in 0..(height - 1), color \in Colors :
         LET i == Offset(width, height, x, y) IN
           /\ pixels' = StoreAll(pixels, i, color)
           /\ panicked' = (i < 0 \/ i + 2 >= Len(pixels))
           /\ last' = [x |-> x, y |-> y, color |-> color, i |-> i]
    /\ nsets' = nsets + 1
    /\ UNCHANGED <<width, height, pc, file, sink, attempts, result, budget>>

\* write_to_file up to and including File::create, which may fail
BeginWrite ==
    /\ pc = "idle"
    /\ ~panicked
    /\ file' \in {"open"} \cup Errors
    /\ pc' = "file_header"
    /\ sink' = << >>
    /\ attempts' = << >>
    /\ result' = "none"
    /\ UNCHANGED <<width, height, pixels, panicked, nsets, last, budget>>

\* variant: the result of the write is dropped and the call goes on
WriteChunkNoTry(name, chunk, next) ==
    /\ pc = name
    /\ \/ /\ file \in Errors
          /\ attempts' = Append(attempts, [chunk |-> name, outcome |-> file])
          /\ sink' = sink
          /\ result' = IF next = "done" THEN file ELSE result
       \/ /\ file = "open"
          /\ attempts' = Append(attempts, [chunk |-> name, outcome |-> "ok"])
          /\ sink' = sink \o chunk
          /\ result' = IF next = "done" THEN "ok" ELSE result
       \/ /\ file = "open"
          /\ \E e \in Errors, k \in 0..Min(MaxPartial, Len(chunk) - 1) :
               /\ attempts' = Append(attempts, [chunk |-> name, outcome |-> e])
               /\ sink' = sink \o SubSeq(chunk, 1, k)
               /\ result' = IF next = "done" THEN e ELSE result
    /\ pc' = next
    /\ UNCHANGED <<width, height, pixels, panicked, file, nsets, last, budget>>

\* one file.write(chunk): an Err file returns its error; an open file
\* accepts the chunk, or fails after accepting a proper prefix of it.
\* The error makes write_to_file return it (try!, or the tail expression).
WriteChunk(name, chunk, next) ==
    /\ pc = name
    /\ \/ /\ file \in Errors
          /\ attempts' = Append(attempts, [chunk |-> name, outcome |-> file])
          /\ sink' = sink
          /\ result' = file
          /\ pc' = "done"
       \/ /\ file = "open"
          /\ attempts' = Append(attempts, [chunk |-> name, outcome |-> "ok"])
          /\ sink' = sink \o chunk
          /\ pc' = next
          /\ result' = IF next = "done" THEN "ok" ELSE result
       \/ /\ file = "open"
          /\ \E e \in Errors, k \in 0..Min(MaxPartial, Len(chunk) - 1) :
               /\ attempts' = Append(attempts, [chunk |-> name, outcome |-> e])
               /\ sink' = sink \o SubSeq(chunk, 1, k)
               /\ result' = e
          /\ pc' = "done"
    /\ UNCHANGED <<width, height, pixels, panicked, file, nsets, last, budget>>

\* try!(file.write(file_header))
WriteFileHeader ==
    WriteChunk("file_header", file_header(width, height), "info_header")

\* variant: the info header is never written
WriteInfoHeaderSkip ==
    /\ pc = "info_header"
    /\ pc' = "pixels"
    /\ UNCHANGED <<width, height, pixels, panicked, file, sink, attempts,
                   result, nsets, last, budget>>

\* try!(file.write(info_header))
WriteInfoHeader ==
    WriteChunk("info_header", info_header(width, height), "pixels")

\* variant: only height * width * 3 bytes of the pixel array are written
WritePixelsTrunc ==
    WriteChunk("pixels", SubSeq(pixels, 1, height * width * 3), "done")

\* file.write(self.pixels.as_slice())
WritePixels ==
    WriteChunk("pixels", pixels, "done")

\* write_to_file returns: its locals go out of scope
Return ==
    /\ pc = "done"
    /\ pc' = "idle"
    /\ file' = "none"
    /\ sink' = << >>
    /\ attempts' = << >>
    /\ result' = "none"
    /\ UNCHANGED <<width, height, pixels, panicked, nsets, last, budget>>

Next ==
    \/ SetPixel
    \/ BeginWrite
    \/ WriteFileHeader
    \/ WriteInfoHeader
    \/ WritePixels
    \/ Return

Spec == Init /\ [][Next]_vars

SpecWide == InitWide /\ [][Next]_vars

Spec2x2 == Init2x2 /\ [][Next]_vars

(* ===================================================================== *)
(* Properties                                                            *)
(* ===================================================================== *)

\* pixel (x, y) as a reader of the format finds it: the bytes at offset
\* (h - y - 1) * (w * 3) + x * 3 taken as blue, green, red; result (r, g, b)
ReadRGB(p, w, h, x, y) ==
    LET o == (h - y - 1) * (w * 3) + x * 3
    IN  << p[o + 3], p[o + 2], p[o + 1] >>

\* little-endian value of the four bytes of s that follow the first off bytes
DecodeLE(s, off) ==
    s[off + 1] + 256 * s[off + 2] + 65536 * s[off + 3] + 16777216 * s[off + 4]

\* row stride of the encoded pixel data
RowStride == width * 3 + (width % 4)

\* row of the encoded pixel data that holds byte offset k
RowOf(k) == k \div RowStride

\* (n + 3) & ~3 : n + 3 with its two low bits cleared
StdStride(w) == (w * 3 + 3) - ((w * 3 + 3) % 4)

InRange == (0..(width - 1)) \X (0..(height - 1))

\* C1: a set_pixel(x, y, (r, g, b)) step leaves (r, g, b) readable at
\* (x, y) and leaves every other in-range pixel as it was before the call.
C1_ReadBack ==
    [][ nsets' = nsets + 1 =>
          /\ ReadRGB(pixels', width, height, last'.x, last'.y) = last'.color
          /\ \A q \in InRange :
               q # << last'.x, last'.y >> =>
                 ReadRGB(pixels', width, height, q[1], q[2])
                   = ReadRGB(pixels, width, height, q[1], q[2]) ]_vars

C1_Witness ==
    /\ nsets >= 2
    /\ width > 1 /\ height > 1
    /\ ReadRGB(pixels, width, height, last.x, last.y) = last.color
    /\ \E q \in InRange :
         /\ q # << last.x, last.y >>
         /\ ReadRGB(pixels, width, height, q[1], q[2]) \in Colors \ {last.color}

\* C2: before any set_pixel call the pixel array has length
\* height * (width*3 + width mod 4), every byte is 0xFF and every in-range
\* pixel reads as white.
C2_FreshWhite ==
    nsets = 0 =>
      /\ Len(pixels) = height * (width * 3 + (width % 4))
      /\ \A k \in 1..Len(pixels) : pixels[k] = 255
      /\ \A q \in InRange :
           ReadRGB(pixels, width, height, q[1], q[2]) = << 255, 255, 255 >>

C2_Witness ==
    /\ nsets = 0
    /\ width = 3 /\ height = 2
    /\ Len(pixels) = 24
    /\ pixels[24] = 255

\* C3: with the pixel data divided into height rows of RowStride bytes,
\* set_pixel(0, 0, C) stores its three bytes in the last row and
\* set_pixel(0, height-1, C) stores them in the first row.
C3_VerticalFlip ==
    (nsets > 0 /\ ~panicked /\ last.x = 0) =>
      /\ last.y = 0 =>
           RowOf(last.i) = height - 1 /\ RowOf(last.i + 2) = height - 1
      /\ last.y = height - 1 =>
           RowOf(last.i) = 0 /\ RowOf(last.i + 2) = 0

\* the four pixels of the 2x2 bitmap all read (10, 20, 30)
AllSet2x2 ==
    /\ width = 2 /\ height = 2
    /\ \A q \in InRange :
         ReadRGB(pixels, width, height, q[1], q[2]) = << 10, 20, 30 >>

FourTriples == << 30, 20, 10, 30, 20, 10, 30, 20, 10, 30, 20, 10 >>

C5_HeaderLayout ==
    LET isz == height * width * 3 + height * (width % 4)
        fsz == isz + 54
    IN  /\ Len(sink) >= 14 =>
              /\ \A k \in 1..14 : sink[k] \in 0..255
              /\ SubSeq(sink, 1, 2) = << 66, 77 >>
              /\ DecodeLE(sink, 2) = fsz
              /\ SubSeq(sink, 7, 10) = << 0, 0, 0, 0 >>
              /\ SubSeq(sink, 11, 14) = << 54, 0, 0, 0 >>
        /\ Len(sink) >= 54 =>
              /\ \A k \in 15..54 : sink[k] \in 0..255
              /\ SubSeq(sink, 15, 18) = << 40, 0, 0, 0 >>
              /\ DecodeLE(sink, 18) = width
              /\ DecodeLE(sink, 22) = height
              /\ SubSeq(sink, 27, 28) = << 1, 0 >>
              /\ SubSeq(sink, 29, 30) = << 24, 0 >>
              /\ SubSeq(sink, 31, 34) = << 0, 0, 0, 0 >>
              /\ DecodeLE(sink, 34) = isz
              /\ SubSeq(sink, 39, 42) = << 72, 0, 0, 0 >>
              /\ SubSeq(sink, 43, 46) = << 72, 0, 0, 0 >>
              /\ SubSeq(sink, 47, 54) = << 0, 0, 0, 0, 0, 0, 0, 0 >>

C5_Witness ==
    /\ Len(sink) >= 54
    /\ nsets >= 1
    /\ sink[4] > 0
    /\ sink[36] > 0
    /\ DecodeLE(sink, 2) >= 256

\* C6: the file_size field written is 54 + the image_size field, and the
\* image_size field is height*width*3 + height*(width mod 4), the length of
\* the pixel array and the number of pixel bytes a successful write emits.
C6_Sizes ==
    Len(sink) >= 54 =>
      /\ DecodeLE(sink, 2) = 54 + DecodeLE(sink, 34)
      /\ DecodeLE(sink, 34) = height * width * 3 + height * (width % 4)
      /\ DecodeLE(sink, 34) = Len(pixels)
      /\ result = "ok" => Len(sink) - 54 = DecodeLE(sink, 34)

C6_Witness ==
    /\ result = "ok"
    /\ nsets >= 1
    /\ width % 4 # 0
    /\ DecodeLE(sink, 34) = Len(pixels)

ThreeChunks == << "file_header", "info_header", "pixels" >>

\* C7: the writes issued are always an initial part of file header, info
\* header, pixel array, in that order; when every write is accepted there
\* are exactly these three and the file holds the 14 + 40 header bytes
\* followed by the pixel array, 54 + Len(pixels) bytes in all.
C7_ThreeWrites ==
    /\ Len(attempts) <= 3
    /\ \A k \in 1..Len(attempts) : attempts[k].chunk = ThreeChunks[k]
    /\ result = "ok" =>
         /\ Len(attempts) = 3
         /\ \A k \in 1..3 : attempts[k].outcome = "ok"
         /\ Len(sink) = 54 + Len(pixels)
         /\ SubSeq(sink, 1, 2) = << 66, 77 >>
         /\ SubSeq(sink, 15, 18) = << 40, 0, 0, 0 >>
         /\ SubSeq(sink, 55, Len(sink)) = pixels

C7_Witness ==
    /\ result = "ok"
    /\ pc = "done"
    /\ Len(attempts) = 3
    /\ nsets >= 1
    /\ Len(sink) = 54 + Len(pixels)

IsPrefix(s, t) == Len(s) <= Len(t) /\ SubSeq(t, 1, Len(s)) = s

\* C8: a write that fails is the last write of the call and its error is
\* the value returned; in particular a failed first write leaves the info
\* header and the pixel data unattempted.  During the call the bytes the
\* file accepted stay in it and width, height and pixels do not change.
C8_FailFast ==
    /\ [](/\ \A k \in 1..Len(attempts) :
               attempts[k].outcome # "ok" =>
                 /\ k = Len(attempts)
                 /\ result = attempts[k].outcome
                 /\ pc = "done"
          /\ result \in Errors =>
               /\ Len(attempts) >= 1
               /\ attempts[Len(attempts)].outcome = result
          /\ (Len(attempts) >= 1 /\ attempts[1].outcome # "ok") =>
               /\ Len(attempts) = 1
               /\ Len(sink) < 14)
    /\ [][ pc # "idle" =>
             /\ pixels' = pixels /\ width' = width /\ height' = height
             /\ pc' # "idle" => IsPrefix(sink, sink')
             /\ result \in Errors => pc' = "idle" ]_vars

C8_Witness ==
    /\ result \in Errors
    /\ file = "open"
    /\ Len(attempts) = 1
    /\ attempts[1].chunk = "file_header"
    /\ attempts[1].outcome = result
    /\ Len(sink) = 1
    /\ nsets >= 1

\* C9 as stated: among the bitmaps of this height there is a width >= 1
\* whose allocated row stride width*3 + (width mod 4) differs from the
\* standard (width*3 + 3) & ~3.
C9_Original ==
    \E w \in 1..MaxWide :
      Len(NewPixels(w, height)) # height * StdStride(w)

\* C9 amended: for every width >= 1 the allocated row stride
\* width*3 + (width mod 4) equals the standard (width*3 + 3) & ~3, so the
\* pixel array has height * ((width*3 + 3) & ~3) bytes.
C9_Amended ==
    /\ Len(pixels) = height * StdStride(width)
    /\ StdStride(width) % 4 = 0
    /\ StdStride(width) >= width * 3
    /\ StdStride(width) < width * 3 + 4

C9_Witness ==
    /\ width % 4 # 0
    /\ (width * 3) % 4 # 0
    /\ width = 7
    /\ height > 1
    /\ Len(pixels) = height * 24

\* C10: no in-range set_pixel indexes outside the pixel array: the offsets
\* i, i+1, i+2 of every in-range pixel lie inside it, no call has failed its
\* bounds check, and the array's length, width and height never change.
C10_InBounds ==
    /\ [](/\ ~panicked
          /\ Len(pixels) = height * (width * 3 + (width % 4))
          /\ nsets > 0 => (0 <= last.i /\ last.i + 2 < Len(pixels))
          /\ \A q \in InRange :
               LET i == (height - q[2] - 1) * (width * 3) + q[1] * 3
               IN  0 <= i /\ i + 2 < height * (width * 3 + (width % 4)))
    /\ [][ /\ Len(pixels') = Len(pixels)
           /\ width' = width
           /\ height' = height ]_vars

C10_Witness ==
    /\ nsets > 0
    /\ ~panicked
    /\ width % 4 = 0
    /\ last.y = 0 /\ last.x = width - 1
    /\ last.i + 3 = Len(pixels)

====
